---- MODULE Spec2Model ----
(***************************************************************************)
(* The per-frame locomotion update of the three stickman programs:         *)
(*   "main"     src/main.js              flat ground at y = 0, no body bob *)
(*   "ground"   src/unnamed/part_001     flat ground at groundLevel, bob   *)
(*   "platform" src/unnamed/part_000     loaded mesh, downward ray cast    *)
(*                                                                         *)
(* Numbers are fixed point.  Heights, velocities, speeds, yaw and joint    *)
(* angles are in 1/1000 (0.05 is 50).  Sines and cosines of the yaw are in *)
(* 1/1000000, so horizontal positions are in 1/1000000000.  Equalities     *)
(* between computed numbers are therefore equalities at that resolution;   *)
(* the last-bit rounding of the double arithmetic is below it.             *)
(* The clock Date.now() * 0.001 is an input of every frame, sampled in     *)
(* steps of pi/4, so that time * frequency is a multiple of pi/8 (Sin16).  *)
(***************************************************************************)
EXTENDS Integers, Sequences, FiniteSets, TLC

VARIABLES variant, down, keys, platformMesh,
          posX, posY, posZ, rotY, velY, jumpForce,
          isWalking, isRunning, isJumping, groundLevel,
          leftArm, rightArm, leftLeg, rightLeg,
          tick, moves, fired, clamped, pressImpulses, airImpulses, landed

vars == <<variant, down, keys, platformMesh, posX, posY, posZ, rotY, velY,
          jumpForce, isWalking, isRunning, isJumping, groundLevel,
          leftArm, rightArm, leftLeg, rightLeg,
          tick, moves, fired, clamped, pressImpulses, airImpulses, landed>>

\* ------------------------------------------------------------- bounds
\* Largest number of turn steps the yaw may be away from 0.
MaxTurns == 1
\* Largest number of frames that translate the character.
MaxMoves == 1
\* Largest downward speed at the end of a frame, in frames of gravity.
MaxFall == 18
\* Largest clock sample of the gait specification.
MaxPhase == 7
\* Largest clock sample.
MaxTime == 1

\* ------------------------------------------------------------- numbers
Abs(a) == IF a >= 0 THEN a ELSE -a

\* a / d rounded toward zero.
TruncDiv(a, d) == IF a >= 0 THEN a \div d ELSE -((-a) \div d)

\* Product of two numbers in 1/1000, in 1/1000.
MulMilli(a, b) == TruncDiv(a * b, 1000)

\* Math.sin at the multiples of pi/8, in 1/1000.
Sin16(i) ==
    LET tbl == <<0, 383, 707, 924, 1000, 924, 707, 383,
                 0, -383, -707, -924, -1000, -924, -707, -383>>
    IN tbl[(i % 16) + 1]

\* Math.sin and Math.cos of a yaw of n turn steps, in 1/1000000.
SinYaw(v, n) ==
    LET t50 == <<0, 49979, 99833, 149438, 198669>>
        t60 == <<0, 59964, 119712, 179030, 237703>>
        tbl == IF v = "main" THEN t50 ELSE t60
    IN IF n >= 0 THEN tbl[n + 1] ELSE -tbl[(-n) + 1]

CosYaw(v, n) ==
    LET t50 == <<1000000, 998750, 995004, 988771, 980067>>
        t60 == <<1000000, 998201, 992809, 983844, 971338>>
        tbl == IF v = "main" THEN t50 ELSE t60
    IN tbl[Abs(n) + 1]

\* The interpolation taken from y toward x: x + (x - y) * t.
LerpAway(a, b, t) == a + TruncDiv((a - b) * t, 1000)

\* THREE.MathUtils.lerp(x, y, t) = (1 - t) * x + t * y, t in 1/1000.
Lerp(a, b, t) == TruncDiv((1000 - t) * a + t * b, 1000)

\* ------------------------------------------------------------- constants
Variants == {"main", "ground", "platform"}

\* state.gravity
Gravity(v) == IF v = "main" THEN -10 ELSE -20
\* the value given to state.jumpForce by the jump branch
JumpImpulse(v) == IF v = "main" THEN 200 ELSE 300
\* state.speed / state.walkSpeed
WalkSpeed(v) == 50
\* state.runSpeed
RunSpeed(v) == IF v = "main" THEN 100 ELSE 120
\* state.turnSpeed
TurnSpeed(v) == IF v = "main" THEN 50 ELSE 60
\* legLength = 1.3 * scale, scale = 1.8
LegLength == 2340
\* stickman.position.y after construction
StartY(v) == IF v = "main" THEN 0 ELSE LegLength
\* the factor on backward motion
BackFactor(v) == IF v = "main" THEN 1000 ELSE 600
\* the tolerance of the ray-cast clamp
ContactEps == 10
\* the upward offset of the ray origin
RayOffset == 1000
\* bob amplitude
BobAmp == 50
\* lerp factor of the return to the neutral pose
RestLerp == 100
\* height of the platform's top face (platform.position.set(0, 0, 0))
SurfaceY == 0

\* the properties of the keys object of main.js
MainKeys == {"ArrowUp", "ArrowDown", "ArrowLeft", "ArrowRight", "Space", "Shift"}

\* ------------------------------------------------------------- input flags
Forward(v, k) == "ArrowUp" \in k \/ (v # "main" /\ "KeyW" \in k)
Backward(v, k) == "ArrowDown" \in k \/ (v # "main" /\ "KeyS" \in k)
TurnLeft(v, k) == "ArrowLeft" \in k \/ (v # "main" /\ "KeyA" \in k)
TurnRight(v, k) == "ArrowRight" \in k \/ (v # "main" /\ "KeyD" \in k)
JumpKey(v, k) == "Space" \in k
RunKey(v, k) ==
    IF v = "main" THEN "Shift" \in k
    ELSE "ShiftLeft" \in k \/ "ShiftRight" \in k

\* moveSpeed
MoveSpeed(v, running) == IF running THEN RunSpeed(v) ELSE WalkSpeed(v)

\* ------------------------------------------------------------- frame steps
\* Each step maps the frame's record s to the record after the step.

\* state.isWalking = false; state.isRunning = ...; isWalking from the keys
ReadInput(v, k, s) ==
    [s EXCEPT !.isWalking = Forward(v, k) \/ Backward(v, k),
              !.isRunning = RunKey(v, k)]

\* The turn applied only while the character is not jumping.
TurnGroundedOnly(v, k, s) ==
    IF s.isJumping THEN s
    ELSE [s EXCEPT !.rotY = s.rotY
                       + (IF TurnLeft(v, k) THEN TurnSpeed(v) ELSE 0)
                       - (IF TurnRight(v, k) THEN TurnSpeed(v) ELSE 0)]

\* rotation.y += turnSpeed / -= turnSpeed
Turn(v, k, s) ==
    [s EXCEPT !.rotY = s.rotY
                       + (IF TurnLeft(v, k) THEN TurnSpeed(v) ELSE 0)
                       - (IF TurnRight(v, k) THEN TurnSpeed(v) ELSE 0)]

\* yaw in turn steps
YawSteps(v, s) == TruncDiv(s.rotY, TurnSpeed(v))

\* The translation with the backward step at the full speed in every program.
TranslateBackFull(v, k, s) ==
    LET sn == SinYaw(v, YawSteps(v, s))
        cs == CosYaw(v, YawSteps(v, s))
        m  == MoveSpeed(v, s.isRunning)
        dz == IF Backward(v, k) THEN 1 ELSE IF Forward(v, k) THEN -1 ELSE 0
    IN IF v = "main"
       THEN [s EXCEPT !.posX = s.posX + dz * sn * m,
                      !.posZ = s.posZ + dz * cs * m]
       ELSE [s EXCEPT !.posX = s.posX + (IF Forward(v, k) THEN sn * m ELSE 0)
                                      - (IF Backward(v, k) THEN sn * m ELSE 0),
                      !.posZ = s.posZ + (IF Forward(v, k) THEN cs * m ELSE 0)
                                      - (IF Backward(v, k) THEN cs * m ELSE 0)]

\* main.js: direction.z is -1 for ArrowUp, then 1 for ArrowDown; the vector
\* (0, 0, direction.z) is rotated about the y axis by rotation.y and scaled.
\* The others: forward = (sin, 0, cos) * moveSpeed, then
\* backward = (-sin, 0, -cos) * moveSpeed * 0.6, each added when its key is held.
Translate(v, k, s) ==
    LET sn == SinYaw(v, YawSteps(v, s))
        cs == CosYaw(v, YawSteps(v, s))
        m  == MoveSpeed(v, s.isRunning)
        b  == TruncDiv(m * BackFactor(v), 1000)
        dz == IF Backward(v, k) THEN 1 ELSE IF Forward(v, k) THEN -1 ELSE 0
    IN IF v = "main"
       THEN [s EXCEPT !.posX = s.posX + dz * sn * m,
                      !.posZ = s.posZ + dz * cs * m]
       ELSE [s EXCEPT !.posX = s.posX + (IF Forward(v, k) THEN sn * m ELSE 0)
                                      - (IF Backward(v, k) THEN sn * b ELSE 0),
                      !.posZ = s.posZ + (IF Forward(v, k) THEN cs * m ELSE 0)
                                      - (IF Backward(v, k) THEN cs * b ELSE 0)]

\* The jump branch without its state.isJumping = true.
JumpStepNoFlag(v, k, s) ==
    IF JumpKey(v, k) /\ ~s.isJumping
    THEN [s EXCEPT !.jumpForce = JumpImpulse(v), !.fired = TRUE]
    ELSE s

\* if (keys.Space && !state.isJumping) { jumpForce = ...; isJumping = true }
JumpStep(v, k, s) ==
    IF JumpKey(v, k) /\ ~s.isJumping
    THEN [s EXCEPT !.jumpForce = JumpImpulse(v), !.isJumping = TRUE,
                   !.fired = TRUE]
    ELSE s

\* The physics without its velocity.y += gravity.
PhysicsImpulseOnly(v, s) ==
    LET vy == s.velY + s.jumpForce
    IN [s EXCEPT !.velY = vy, !.jumpForce = 0, !.posY = s.posY + vy]

\* velocity.y += gravity; velocity.y += jumpForce; jumpForce = 0;
\* position.y += velocity.y
Physics(v, s) ==
    LET vy == s.velY + Gravity(v) + s.jumpForce
    IN [s EXCEPT !.velY = vy, !.jumpForce = 0, !.posY = s.posY + vy]

\* The clamp of all three collision branches.
Clamp(s, h) ==
    [s EXCEPT !.posY = h, !.velY = 0, !.isJumping = FALSE, !.clamped = TRUE]

\* raycaster.intersectObject(platformMesh, true) from position + (0, 1, 0)
\* straight down: the top face is hit when the origin is not below it.
RayHits(s) == s.posY + RayOffset >= SurfaceY

\* Ground collision of the frame.
Collide(v, mesh, s) ==
    CASE v = "main" -> IF s.posY <= 0 THEN Clamp(s, 0) ELSE s
      [] v = "ground" ->
            IF s.posY <= s.groundLevel THEN Clamp(s, s.groundLevel) ELSE s
      [] OTHER ->
            IF mesh /\ RayHits(s)
            THEN [(IF s.posY <= SurfaceY + ContactEps
                   THEN Clamp(s, SurfaceY) ELSE s)
                  EXCEPT !.groundLevel = SurfaceY]
            ELSE s

\* time * frequency as a multiple of pi/8, time being t * pi/4:
\* main.js uses 1.5 and 2.5, the others 3 and 5.
Phase(v, running, t) ==
    IF v = "main" THEN t * (IF running THEN 5 ELSE 3)
    ELSE 2 * t * (IF running THEN 5 ELSE 3)

\* animateStickmanLimbs(time, isWalking, isRunning) of main.js
AnimateLimbs(s, t) ==
    LET ph == Phase("main", s.isRunning, t)
        swing == IF s.isWalking THEN MulMilli(Sin16(ph), 700) ELSE 0
        swingOpp == IF s.isWalking THEN MulMilli(Sin16(ph + 8), 700) ELSE 0
    IN [s EXCEPT !.leftArm = swing, !.rightArm = swingOpp,
                 !.leftLeg = swingOpp, !.rightLeg = swing]

\* animateWalking with the bob added to the height the frame resolved.
AnimateWalkingBobOnTop(v, s, t) ==
    LET ph == Phase(v, s.isRunning, t)
        armAmp == IF s.isRunning THEN 800 ELSE 500
        legAmp == IF s.isRunning THEN 1000 ELSE 600
        cycle == Sin16(ph)
        oppCycle == Sin16(ph + 8)
        bob == MulMilli(Abs(Sin16(2 * ph)), BobAmp)
    IN IF ~s.isWalking
       THEN [s EXCEPT !.leftArm = Lerp(s.leftArm, 0, RestLerp),
                      !.rightArm = Lerp(s.rightArm, 0, RestLerp),
                      !.leftLeg = Lerp(s.leftLeg, 0, RestLerp),
                      !.rightLeg = Lerp(s.rightLeg, 0, RestLerp)]
       ELSE [s EXCEPT !.leftArm = MulMilli(cycle, armAmp),
                      !.rightArm = MulMilli(oppCycle, armAmp),
                      !.leftLeg = MulMilli(oppCycle, legAmp),
                      !.rightLeg = MulMilli(cycle, legAmp),
                      !.posY = s.posY + bob]

\* animateWalking with the left leg on the cycle of the right leg.
AnimateWalkingLegsTogether(v, s, t) ==
    LET ph == Phase(v, s.isRunning, t)
        armAmp == IF s.isRunning THEN 800 ELSE 500
        legAmp == IF s.isRunning THEN 1000 ELSE 600
        cycle == Sin16(ph)
        oppCycle == Sin16(ph + 8)
        bob == MulMilli(Abs(Sin16(2 * ph)), BobAmp)
    IN IF ~s.isWalking
       THEN [s EXCEPT !.leftArm = Lerp(s.leftArm, 0, RestLerp),
                      !.rightArm = Lerp(s.rightArm, 0, RestLerp),
                      !.leftLeg = Lerp(s.leftLeg, 0, RestLerp),
                      !.rightLeg = Lerp(s.rightLeg, 0, RestLerp)]
       ELSE [s EXCEPT !.leftArm = MulMilli(cycle, armAmp),
                      !.rightArm = MulMilli(oppCycle, armAmp),
                      !.leftLeg = MulMilli(cycle, legAmp),
                      !.rightLeg = MulMilli(cycle, legAmp),
                      !.posY = s.groundLevel + bob]

\* animateWalking(time) of the other two programs
AnimateWalking(v, s, t) ==
    LET ph == Phase(v, s.isRunning, t)
        armAmp == IF s.isRunning THEN 800 ELSE 500
        legAmp == IF s.isRunning THEN 1000 ELSE 600
        cycle == Sin16(ph)
        oppCycle == Sin16(ph + 8)
        bob == MulMilli(Abs(Sin16(2 * ph)), BobAmp)
    IN IF ~s.isWalking
       THEN [s EXCEPT !.leftArm = Lerp(s.leftArm, 0, RestLerp),
                      !.rightArm = Lerp(s.rightArm, 0, RestLerp),
                      !.leftLeg = Lerp(s.leftLeg, 0, RestLerp),
                      !.rightLeg = Lerp(s.rightLeg, 0, RestLerp)]
       ELSE [s EXCEPT !.leftArm = MulMilli(cycle, armAmp),
                      !.rightArm = MulMilli(oppCycle, armAmp),
                      !.leftLeg = MulMilli(oppCycle, legAmp),
                      !.rightLeg = MulMilli(cycle, legAmp),
                      !.posY = s.groundLevel + bob]

Animate(v, s, t) ==
    IF v = "main" THEN AnimateLimbs(s, t) ELSE AnimateWalking(v, s, t)

\* The body of animate(), in the order of the source: main.js turns before
\* it moves, the others move before they turn.
Step(v, k, mesh, s, t) ==
    LET s1 == ReadInput(v, k, s)
        s2 == IF v = "main" THEN Translate(v, k, Turn(v, k, s1))
              ELSE Turn(v, k, Translate(v, k, s1))
        s3 == JumpStep(v, k, s2)
        s4 == Physics(v, s3)
        s5 == Collide(v, mesh, s4)
    IN Animate(v, s5, t)

\* ------------------------------------------------------------- state
Current ==
    [posX |-> posX, posY |-> posY, posZ |-> posZ, rotY |-> rotY,
     velY |-> velY, jumpForce |-> jumpForce, isWalking |-> isWalking,
     isRunning |-> isRunning, isJumping |-> isJumping,
     groundLevel |-> groundLevel, leftArm |-> leftArm,
     rightArm |-> rightArm, leftLeg |-> leftLeg, rightLeg |-> rightLeg,
     fired |-> FALSE, clamped |-> FALSE]

\* The frames the model runs: the yaw, the number of translating frames and
\* the downward speed stay within the bounds.
InBounds(v, s, n) ==
    /\ Abs(s.rotY) <= MaxTurns * TurnSpeed(v)
    /\ n <= MaxMoves
    /\ s.velY >= MaxFall * Gravity(v)

InitOf(V) ==
    /\ variant \in V
    /\ down = {}
    /\ keys = {}
    /\ platformMesh = FALSE
    /\ posX = 0 /\ posZ = 0 /\ rotY = 0
    /\ posY = StartY(variant)
    /\ velY = 0 /\ jumpForce = 0
    /\ isWalking = FALSE /\ isRunning = FALSE /\ isJumping = FALSE
    /\ groundLevel = IF variant = "main" THEN 0 ELSE LegLength
    /\ leftArm = 0 /\ rightArm = 0 /\ leftLeg = 0 /\ rightLeg = 0
    /\ tick = 0 /\ moves = 0
    /\ fired = FALSE /\ clamped = FALSE
    /\ pressImpulses = 0 /\ airImpulses = 0 /\ landed = FALSE

\* ------------------------------------------------------------- observation
\* What the frames did, recorded for the properties below:
\*   tick           parity of the number of calls of animate()
\*   moves          frames that translated the character
\*   fired          the last frame took the jump branch
\*   clamped        the last frame took the clamp branch of the collision
\*   pressImpulses  frames that took the jump branch since Space went down
\*   airImpulses    frames that took the jump branch since the last clamp
\*   landed         a frame has clamped and no frame has jumped since
\* The two counters stop at 2.
Count(n, b) == IF b /\ n < 2 THEN n + 1 ELSE n

\* ------------------------------------------------------------- actions
\* keydown: main.js records only the codes that are properties of keys.
KeyDown(c) ==
    /\ down' = down \cup {c}
    /\ keys' = IF variant = "main" /\ c \notin MainKeys THEN keys
               ELSE keys \cup {c}
    /\ UNCHANGED <<variant, platformMesh, posX, posY, posZ, rotY, velY,
                   jumpForce, isWalking, isRunning, isJumping, groundLevel,
                   leftArm, rightArm, leftLeg, rightLeg,
                   tick, moves, fired, clamped, pressImpulses, airImpulses, landed>>

\* keyup
KeyUp(c) ==
    /\ c \in down
    /\ down' = down \ {c}
    /\ keys' = keys \ {c}
    /\ pressImpulses' = IF c = "Space" THEN 0 ELSE pressImpulses
    /\ UNCHANGED <<variant, platformMesh, posX, posY, posZ, rotY, velY,
                   jumpForce, isWalking, isRunning, isJumping, groundLevel,
                   leftArm, rightArm, leftLeg, rightLeg,
                   tick, moves, fired, clamped, airImpulses, landed>>

\* The callback of loader.load: platformMesh becomes the first mesh.
LoadComplete ==
    /\ variant = "platform"
    /\ ~platformMesh
    /\ platformMesh' = TRUE
    /\ UNCHANGED <<variant, down, keys, posX, posY, posZ, rotY, velY,
                   jumpForce, isWalking, isRunning, isJumping, groundLevel,
                   leftArm, rightArm, leftLeg, rightLeg,
                   tick, moves, fired, clamped, pressImpulses, airImpulses, landed>>

\* One call of animate() with the clock at sample t.
Frame(t) ==
    \E s \in {Step(variant, keys, platformMesh, Current, t)} :
    \E n \in {IF s.isWalking THEN moves + 1 ELSE moves} :
       /\ InBounds(variant, s, n)
       /\ moves' = n
       /\ posX' = s.posX /\ posY' = s.posY /\ posZ' = s.posZ
       /\ rotY' = s.rotY /\ velY' = s.velY /\ jumpForce' = s.jumpForce
       /\ isWalking' = s.isWalking /\ isRunning' = s.isRunning
       /\ isJumping' = s.isJumping /\ groundLevel' = s.groundLevel
       /\ leftArm' = s.leftArm /\ rightArm' = s.rightArm
       /\ leftLeg' = s.leftLeg /\ rightLeg' = s.rightLeg
       /\ tick' = 1 - tick
       /\ fired' = s.fired
       /\ clamped' = s.clamped
       /\ pressImpulses' = Count(pressImpulses, s.fired)
       /\ airImpulses' = IF s.clamped THEN 0 ELSE Count(airImpulses, s.fired)
       /\ landed' = IF s.clamped THEN TRUE ELSE (landed /\ ~s.fired)
       /\ UNCHANGED <<variant, down, keys, platformMesh>>

Times == 0..MaxTime
FrameAny == \E t \in Times : Frame(t)

\* ------------------------------------------------------------- specifications
\* Jumping and walking, all three programs.
JumpCodes == {"Space", "ArrowUp"}
KeyDownJump == \E c \in JumpCodes : KeyDown(c)
KeyUpJump == \E c \in JumpCodes : KeyUp(c)
NextJump == KeyDownJump \/ KeyUpJump \/ LoadComplete \/ FrameAny
Spec == InitOf(Variants) /\ [][NextJump]_vars

\* The mesh program alone.
SpecMesh == InitOf({"platform"}) /\ [][NextJump]_vars

\* Moving forward and backward and running, all three programs.
RunCodes == {"ArrowUp", "ArrowDown", "ShiftLeft"}
KeyDownRun == \E c \in RunCodes : KeyDown(c)
KeyUpRun == \E c \in RunCodes : KeyUp(c)
FrameAtZero == Frame(0)
NextRun == KeyDownRun \/ KeyUpRun \/ LoadComplete \/ FrameAtZero
SpecRun == InitOf(Variants) /\ [][NextRun]_vars

\* Turning while running and jumping, all three programs.
TurnCodes == {"ArrowLeft", "ArrowRight", "ShiftLeft", "Space"}
KeyDownTurn == \E c \in TurnCodes : KeyDown(c)
KeyUpTurn == \E c \in TurnCodes : KeyUp(c)
NextTurn == KeyDownTurn \/ KeyUpTurn \/ LoadComplete \/ FrameAtZero
SpecTurn == InitOf(Variants) /\ [][NextTurn]_vars

\* Walking and running at every sampled phase of the gait.
GaitCodes == {"ArrowUp", "ShiftLeft"}
KeyDownGait == \E c \in GaitCodes : KeyDown(c)
KeyUpGait == \E c \in GaitCodes : KeyUp(c)
FrameGait == \E t \in 0..MaxPhase : Frame(t)
NextGait == KeyDownGait \/ KeyUpGait \/ LoadComplete \/ FrameGait
SpecGait == InitOf(Variants) /\ [][NextGait]_vars

\* ------------------------------------------------------------- properties
\* A step that is one call of animate().
FrameStep == tick' # tick

\* The contact height: the ground height of the flat programs, the height
\* of the last ray hit (state.groundLevel) of the mesh program.
ContactHeight == IF variant = "main" THEN 0 ELSE groundLevel

\* The mesh program has a contact height once a ray has hit.
HasContact == variant # "platform" \/ groundLevel = SurfaceY

SpaceHeld == "Space" \in down
ShiftHeld == "ShiftLeft" \in down \/ "ShiftRight" \in down

C2_JumpOnlyGrounded ==
    [][(FrameStep /\ fired') => (posY = ContactHeight /\ velY = 0)]_vars

C4_GroundClamp ==
    /\ landed => (posY = ContactHeight /\ velY = 0)
    /\ HasContact => posY >= ContactHeight
    /\ (HasContact /\ landed) => posY <= ContactHeight + BobAmp

\* C5: while the mesh is not loaded, every frame ends strictly lower than
\* the frame before, resolves no contact and never clears isJumping.
C5_FreeFall ==
    [][(FrameStep /\ ~platformMesh)
         => (posY' < posY /\ ~clamped' /\ (isJumping => isJumping'))]_vars

\* The loaded surface is out of the character's reach: the ray starts below
\* the top face, the character is not rising, and the jump impulse, where
\* it can still be set, gives no upward velocity.
Lost ==
    /\ platformMesh
    /\ posY + RayOffset < SurfaceY
    /\ velY <= 0
    /\ isJumping \/ velY + Gravity(variant) + JumpImpulse(variant) <= 0

\* With no movement key held a lost character stays lost and no frame
\* resolves contact.
LostStaysLost ==
    [][(FrameStep /\ Lost /\ ~Forward(variant, keys) /\ ~Backward(variant, keys))
         => (Lost' /\ ~clamped')]_vars

\* C6 (what it needs of every state): once the mesh is loaded a later frame
\* resolves contact, so no state is reached in which the mesh is loaded and
\* the surface is out of the character's reach (from there, by
\* LostStaysLost, the run in which no key is pressed never resolves it).
C6_ContactAfterLoad == ~Lost

\* The keys the user holds, as the claims name them.
OnlyForward ==
    /\ Forward(variant, down) /\ ~Backward(variant, down)
    /\ ~TurnLeft(variant, down) /\ ~TurnRight(variant, down)
OnlyBackward ==
    /\ Backward(variant, down) /\ ~Forward(variant, down)
    /\ ~TurnLeft(variant, down) /\ ~TurnRight(variant, down)
NoMoveKey == ~Forward(variant, down) /\ ~Backward(variant, down)

\* walkSpeed, or runSpeed while a shift key is held, in 1/1000000000.
HeldSpeed ==
    (IF ShiftHeld THEN RunSpeed(variant) ELSE WalkSpeed(variant)) * 1000000

FlagSpeed ==
    (IF isRunning' THEN RunSpeed(variant) ELSE WalkSpeed(variant)) * 1000000

C8_RunModifier ==
    [][FrameStep =>
         /\ isRunning' = ShiftHeld
         /\ (rotY = 0 /\ OnlyForward) => Abs(posZ' - posZ) = HeldSpeed]_vars

C10_AntiphaseAsStated ==
    isWalking => (leftLeg = -rightLeg /\ leftArm = -rightLeg)

\* C10 (amended): while walking the two legs are opposed and the two arms
\* are opposed, and the left arm swings with the right leg, not against
\* it: the same angle in main.js, the same sign and the smaller amplitude
\* in the other two programs.
C10_Antiphase ==
    isWalking =>
        /\ leftLeg = -rightLeg
        /\ leftArm = -rightArm
        /\ leftArm * rightLeg >= 0
        /\ (leftArm = 0) = (rightLeg = 0)
        /\ Abs(leftArm) <= Abs(rightLeg)
        /\ variant = "main" => leftArm = rightLeg

\* A walking frame at a phase where the limbs are off the neutral pose,
\* under the run modifier.
C10_Witness ==
    /\ isWalking /\ isRunning
    /\ leftArm > 0 /\ rightLeg > leftArm /\ leftLeg = -rightLeg

\* The character is on the ground: a surface has been found under it, it
\* is not rising, it stands between the contact height and the top of the
\* bob, and in the mesh program the ray of the next frame starts above the
\* surface.
OnGround ==
    /\ HasContact
    /\ velY <= 0
    /\ posY >= ContactHeight /\ posY <= ContactHeight + BobAmp
    /\ variant = "platform" =>
          posY + velY + Gravity(variant) + RayOffset >= SurfaceY

NoKeyHeld == down = {}

\* An idle frame brings the angle a to a1: same sign, and at most 0.9 of
\* its absolute value.
Damped(a, a1) ==
    /\ a * a1 >= 0
    /\ 1000 * Abs(a1) <= (1000 - RestLerp) * Abs(a)

\* C11: a frame run with no key held by a character on the ground leaves it
\* on the ground (position.y within [groundHeight, groundHeight + 0.05]) and
\* leaves yaw and horizontal position alone; it increases the absolute
\* value of none of the four joint angles, and brings each to at most 0.9
\* of what it was, so that over consecutive such frames the angles converge
\* to 0.
C11_IdleRest ==
    [][(FrameStep /\ NoKeyHeld /\ OnGround) =>
          /\ OnGround'
          /\ Damped(leftArm, leftArm') /\ Damped(rightArm, rightArm')
          /\ Damped(leftLeg, leftLeg') /\ Damped(rightLeg, rightLeg')
          /\ rotY' = rotY /\ posX' = posX /\ posZ' = posZ]_vars

\* Two idle frames after a walking step of the flat program with the bob:
\* the limbs are on their way back and the character has settled on the
\* ground.
C11_Witness ==
    /\ variant = "ground" /\ NoKeyHeld /\ ~isWalking
    /\ posY = ContactHeight /\ velY = 0 /\ posZ # 0
    /\ rightLeg = 342 /\ leftLeg = -342 /\ leftArm = 285

\* A forward or backward key is held.
MoveKeyHeld == Forward(variant, down) \/ Backward(variant, down)

\* C12: in the two programs with the bob, every frame run while a forward
\* or backward key is held ends with position.y between groundLevel and
\* groundLevel + 0.05, whatever the vertical velocity and the jumping flag
\* are; unless the frame met the clamp condition, the velocity is not
\* reset (it goes on integrating gravity and the impulse) and isJumping,
\* once set, stays set.
C12_BobOverwrite ==
    [][(FrameStep /\ variant # "main" /\ MoveKeyHeld) =>
          /\ posY' >= groundLevel' /\ posY' <= groundLevel' + BobAmp
          /\ ~clamped' =>
                /\ velY' = velY + Gravity(variant)
                             + (IF fired' THEN JumpImpulse(variant) ELSE 0)
                /\ isJumping' = (isJumping \/ fired')]_vars

\* A frame that triggered a jump while forward was held: the velocity and
\* the flag of a jump, the height of a walking step.
C12_Witness ==
    /\ variant = "ground" /\ MoveKeyHeld /\ SpaceHeld
    /\ isWalking /\ isJumping /\ fired /\ ~clamped
    /\ velY = Gravity(variant) + JumpImpulse(variant)
    /\ posY = groundLevel + BobAmp

\* The vertical velocity at the end of the frame that triggers a jump from
\* rest: the impulse less one frame of gravity.
LiftOff == JumpImpulse(variant) + Gravity(variant)

====
